---- MODULE Spec2Model ----
(***************************************************************************)
(* Model of mindif_import.py: the import of one MinDIF dataset.  The       *)
(* script parses the phase definitions, reads the scan geometry, inserts   *)
(* the scan and field records, composites every field raster into one     *)
(* canvas while counting pixels per phase, draws the legend, crops the     *)
(* thumbnail and saves the classification image.                           *)
(*                                                                         *)
(* The XML documents, the rasters and the answers of the database are the  *)
(* inputs.  Every phase node, the measurement, every field node and every *)
(* raster pixel is read exactly once, and is chosen at the step that reads *)
(* it.                                                                     *)
(***************************************************************************)
EXTENDS Integers, Sequences, FiniteSets, TLC

VARIABLES
    pc,                     \* position of the script
    error,                  \* the exception that ended the run, or "none"
    phase_node,             \* the phase node read last
    node_i,                 \* index of the next phase node
    phase_map,              \* dict id -> entry; after line 348 the sorted list [items |-> ...]
    largest_name_width,
    empty_phase_map,
    measurement,            \* view_field_um, image_width_px, image_height_px, sample_diameter_um
    diameter_px,
    legend_start_x,
    percent_right_x,
    canvas_size,
    origin,
    fields,                 \* list of (field_name, x, y, mindif_field_id)
    png_array,              \* pixels of the canvas that were assigned; every other pixel is white
    classified_pixel_count,
    thumbnail_x_min,
    thumbnail_x_max,
    thumbnail_y_min,
    thumbnail_y_max,
    field_i,                \* index of the field being composited
    x,
    y,
    phase_index,
    mask_index,
    field_phase_map,
    legend_i,               \* index of the next legend entry to draw
    drawn,                  \* the legend entries drawn so far
    thumbnail_bbox,
    saved,                  \* the image files written
    db,                     \* the tables the script writes
    negative_index          \* what the imaging library does with a negative pixel index:
                            \* "wraps" once it was seen to count it from the far edge

vars == <<pc, error, phase_node, node_i, phase_map, largest_name_width, empty_phase_map,
          measurement, diameter_px, legend_start_x, percent_right_x, canvas_size, origin,
          fields, png_array, classified_pixel_count, thumbnail_x_min, thumbnail_x_max,
          thumbnail_y_min, thumbnail_y_max, field_i, x, y, phase_index, mask_index,
          field_phase_map, legend_i, drawn, thumbnail_bbox, saved, db, negative_index>>

----------------------------------------------------------------------------
(* Bounds of the model *)

MaxPhaseNodes == 2
MaxFields == 2

----------------------------------------------------------------------------
(* Constants of the script *)

font_size == 24
white == <<255, 255, 255>>
black == <<0, 0, 0>>

\* int(math.ceil(font_size * 1.3))
legend_line_height == (font_size * 13 + 9) \div 10
legend_text_x_offset == legend_line_height * 2 - font_size

\* Advance width of one glyph of the monospaced font at font_size.
CharWidth == 14

\* font.getsize(text)[0] for a text of n characters
getsize(n) == CharWidth * n

Max(a, b) == IF a >= b THEN a ELSE b
Min(a, b) == IF a <= b THEN a ELSE b

----------------------------------------------------------------------------
(* The inputs *)

\* '#RRGGBB' as its six hexadecimal digits
Red == <<15, 15, 0, 0, 0, 0>>
Blue == <<0, 0, 0, 0, 15, 15>>
WhiteHex == <<15, 15, 15, 15, 15, 15>>

NameLength(name) ==
    CASE name = "Quartz" -> 6
      [] name = "Biotite" -> 7
      [] name = "Albite-low" -> 10
      [] OTHER -> 10

PhaseNodeChoices ==
    { [id |-> 1, name |-> "Quartz", color |-> Red, mass |-> 3, background |-> "no"],
      [id |-> 8, name |-> "Biotite", color |-> Blue, mass |-> 2, background |-> "no"],
      [id |-> 1, name |-> "Albite-low", color |-> Blue, mass |-> 5, background |-> "no"],
      [id |-> 0, name |-> "Background", color |-> WhiteHex, mass |-> 0, background |-> "yes"] }

\* phase_node before the first node is read
NoNode == [id |-> 0, name |-> "", color |-> WhiteHex, mass |-> 0, background |-> "yes"]

Measurements ==
    { [view_field_um |-> 4, image_width_px |-> 2, image_height_px |-> 1, sample_diameter_um |-> 8],
      [view_field_um |-> 2, image_width_px |-> 1, image_height_px |-> 1, sample_diameter_um |-> 2],
      [view_field_um |-> 4, image_width_px |-> 1, image_height_px |-> 1, sample_diameter_um |-> 8] }

\* the x and y attributes of a field node
FieldCoords == { <<-2, 0>>, <<2, 1>>, <<1, 0>> }

\* the coordinates the transform is compared on
CoordValues == {-2, -1, 0, 1, 2}

\* (phase index, mask value) of a raster pixel
PixelValues == { <<0, 255>>, <<1, 0>>, <<1, 255>>, <<8, 255>> }

----------------------------------------------------------------------------
(* Python 2 dict with int keys: an open-addressed table of 8 slots, the    *)
(* slot of a key found by CPython's probe sequence; iteration walks the    *)
(* slots in index order.  The table is not resized below 6 keys.           *)

DictSize == 8
NoKey == -1

EmptyDict == [slots |-> [s \in 1..DictSize |-> NoKey], val |-> <<>>]

RECURSIVE ProbeFrom(_, _, _, _)
ProbeFrom(slots, key, i, perturb) ==
    IF slots[i + 1] = NoKey \/ slots[i + 1] = key
    THEN i
    ELSE ProbeFrom(slots, key, (5 * i + perturb + 1) % DictSize, perturb \div 32)

DictKeys(d) == DOMAIN d.val

\* d[key] = value
DictSet(d, key, value) ==
    LET s == ProbeFrom(d.slots, key, key % DictSize, key)
    IN [slots |-> [d.slots EXCEPT ![s + 1] = key],
        val |-> (key :> value) @@ d.val]

\* d.items(): the (key, value) pairs in the table's slot order
DictItems(d) ==
    LET ks == SelectSeq(d.slots, LAMBDA k : k # NoKey)
    IN [j \in 1..Len(ks) |-> <<ks[j], d.val[ks[j]]>>]

RECURSIVE DictFromItems(_, _)
DictFromItems(d, items) ==
    IF items = <<>> THEN d
    ELSE DictFromItems(DictSet(d, items[1][1], items[1][2]), Tail(items))

\* copy.deepcopy(d): a new dict filled in the iteration order of d
DeepCopy(d) == DictFromItems(EmptyDict, DictItems(d))

\* {k: v for k, v in d.iteritems() if v['histogram'] != 0}
NonZero(d) ==
    DictFromItems(EmptyDict, SelectSeq(DictItems(d), LAMBDA kv : kv[2].histogram # 0))

\* sorted(items, key = histogram, reverse = True): stable, equal keys keep their order
RECURSIVE InsertDesc(_, _)
InsertDesc(sortedItems, kv) ==
    IF sortedItems = <<>> THEN <<kv>>
    ELSE IF sortedItems[1][2].histogram >= kv[2].histogram
         THEN <<sortedItems[1]>> \o InsertDesc(Tail(sortedItems), kv)
         ELSE <<kv>> \o sortedItems

RECURSIVE SortedDesc(_)
SortedDesc(items) ==
    IF items = <<>> THEN <<>>
    ELSE InsertDesc(SortedDesc(SubSeq(items, 1, Len(items) - 1)), items[Len(items)])

\* The list that replaces the dict in the same variable (lines 326 and 348)
SortedList(d) == [items |-> SortedDesc(DictItems(NonZero(d)))]

IsList(v) == "items" \in DOMAIN v

----------------------------------------------------------------------------
(* Pure helpers of the script *)

\* int(colour_str[1:3], 16), int(colour_str[3:5], 16), int(colour_str[5:7], 16)
ParseColour(colour_str) ==
    <<16 * colour_str[1] + colour_str[2],
      16 * colour_str[3] + colour_str[4],
      16 * colour_str[5] + colour_str[6]>>

\* IsBackground with the test lost: no node is skipped
IsBackground_NeverSkips(node) == FALSE

\* phase_node.get('background') == 'yes'
IsBackground(node) == node.background = "yes"

\* Python 2 round() of the rational n / d (d > 0): halves go away from zero
Round(n, d) ==
    IF n >= 0 THEN (2 * n + d) \div (2 * d) ELSE -((2 * (-n) + d) \div (2 * d))

\* int((sample_diameter_um / float(view_field_um)) * image_width_px)
DiameterPx(m) == (m.sample_diameter_um * m.image_width_px) \div m.view_field_um

\* (field_size[0]/2, field_size[1]/2), Python 2 integer division
Origin(d) == <<d \div 2, d \div 2>>

\* FieldOffset with x not inverted
FieldOffset_XNotInverted(m, org, fx, fy) ==
    <<Round(fx * m.image_width_px + (org[1] - m.image_width_px \div 2) * m.view_field_um,
            m.view_field_um),
      Round(fy * m.image_width_px + (org[2] - m.image_height_px \div 2) * m.view_field_um,
            m.view_field_um)>>

\* round(-float(x) / pixel_spacing + origin[0] - (image_width_px / 2)) and
\* round( float(y) / pixel_spacing + origin[1] - (image_height_px / 2)), with
\* pixel_spacing = float(view_field_um) / float(image_width_px)
FieldOffset(m, org, fx, fy) ==
    <<Round((-fx) * m.image_width_px + (org[1] - m.image_width_px \div 2) * m.view_field_um,
            m.view_field_um),
      Round(fy * m.image_width_px + (org[2] - m.image_height_px \div 2) * m.view_field_um,
            m.view_field_um)>>

\* legend_start_x = int(math.ceil(diameter_px + 30))
LegendStartX(d) == d + 30

\* percent_right_x, the x value that the numeric value must stop at
PercentRightX(d, name_width, numeric_width) ==
    d + legend_text_x_offset + name_width + numeric_width + legend_line_height - font_size

\* IsClassified with the mask forgotten
IsClassified_IgnoresMask(phase, mask) == phase # 0

\* the test of line 308
IsClassified(phase, mask) == phase # 0 /\ mask # 0

\* Number of decimal digits of n >= 0
RECURSIVE Digits(_)
Digits(n) == IF n < 10 THEN 1 ELSE 1 + Digits(n \div 10)

\* n / d rounded to the nearest integer, exact halves to the even neighbour
RoundHalfEven(n, d) ==
    LET q == n \div d
        r == n % d
    IN IF 2 * r < d THEN q
       ELSE IF 2 * r > d THEN q + 1
       ELSE IF q % 2 = 0 THEN q ELSE q + 1

\* get_percent_text(float(histogram) / classified_pixel_count * 100): the text is
\* "<0.01", or the value with two decimals, kept as its number of hundredths
get_percent_text(histogram, total) ==
    IF histogram * 10000 < total
    THEN [less |-> TRUE, hundredths |-> 0, length |-> 5]
    ELSE LET h == RoundHalfEven(histogram * 10000, total)
         IN [less |-> FALSE, hundredths |-> h, length |-> Digits(h \div 100) + 3]

\* The canvas pixel that png_array[px, py] addresses, or <<>> for an IndexError
Address(size, wraps, px, py) ==
    LET ax == IF px < 0 /\ wraps THEN size[1] + px ELSE px
        ay == IF py < 0 /\ wraps THEN size[2] + py ELSE py
    IN IF ax >= 0 /\ ax < size[1] /\ ay >= 0 /\ ay < size[2] THEN <<ax, ay>> ELSE <<>>

\* Colour of a canvas pixel
PixelAt(array, p) == IF p \in DOMAIN array THEN array[p] ELSE white

\* The pixels png.crop(box) takes: left and upper edges included, right and lower excluded
CropRegion(box) ==
    { p \in (box[1]..(box[3] - 1)) \X (box[2]..(box[4] - 1)) : TRUE }

CropSize(box) == <<box[3] - box[1], box[4] - box[2]>>

\* Image.thumbnail((300, 300)): the size after shrinking, aspect kept
ThumbnailSize(size) ==
    LET w1 == IF size[1] > 300 THEN 300 ELSE size[1]
        h1 == IF size[1] > 300 THEN Max((size[2] * 300) \div size[1], 1) ELSE size[2]
        w2 == IF h1 > 300 THEN Max((w1 * 300) \div h1, 1) ELSE w1
        h2 == IF h1 > 300 THEN 300 ELSE h1
    IN <<w2, h2>>

\* The entry stored for a phase node (lines 194-204)
PhaseEntry(node) ==
    [mineral_name |-> node.name,
     mineral_id |-> node.name,
     colour |-> ParseColour(node.color),
     colour_hex |-> node.color,
     mass |-> node.mass,
     histogram |-> 0]

\* Increment counting two for every pixel
Increment_CountsTwice(d, key) ==
    [d EXCEPT !.val = [d.val EXCEPT ![key] = [@ EXCEPT !.histogram = @ + 2]]]

\* d[key]['histogram'] += 1
Increment(d, key) ==
    [d EXCEPT !.val = [d.val EXCEPT ![key] = [@ EXCEPT !.histogram = @ + 1]]]

----------------------------------------------------------------------------
(* The run *)

EmptyDb ==
    [mineral |-> {}, mindif |-> <<>>, mindif_field |-> <<>>,
     mineral_occurrence |-> <<>>, mineral_mass_and_colour |-> <<>>]

NoMeasurement ==
    [view_field_um |-> 1, image_width_px |-> 0, image_height_px |-> 0, sample_diameter_um |-> 0]

Init ==
    /\ pc = "check_sample"
    /\ error = "none"
    /\ phase_node = NoNode
    /\ node_i = 1
    /\ phase_map = EmptyDict
    /\ largest_name_width = 0
    /\ empty_phase_map = EmptyDict
    /\ measurement = NoMeasurement
    /\ diameter_px = 0
    /\ legend_start_x = 0
    /\ percent_right_x = 0
    /\ canvas_size = <<0, 0>>
    /\ origin = <<0, 0>>
    /\ fields = <<>>
    /\ png_array = <<>>
    /\ classified_pixel_count = 0
    /\ thumbnail_x_min = 0
    /\ thumbnail_x_max = 0
    /\ thumbnail_y_min = 0
    /\ thumbnail_y_max = 0
    /\ field_i = 1
    /\ x = 0
    /\ y = 0
    /\ phase_index = 0
    /\ mask_index = 0
    /\ field_phase_map = EmptyDict
    /\ legend_i = 1
    /\ drawn = <<>>
    /\ thumbnail_bbox = <<0, 0, 0, 0>>
    /\ saved = {}
    /\ db = EmptyDb
    /\ negative_index = "unknown"

phaseVars == <<phase_map, largest_name_width, empty_phase_map>>
layoutVars == <<measurement, diameter_px, legend_start_x, percent_right_x, canvas_size, origin>>
canvasVars == <<png_array, classified_pixel_count, thumbnail_x_min, thumbnail_x_max,
                thumbnail_y_min, thumbnail_y_max>>
pixelVars == <<phase_index, mask_index, field_phase_map>>
outputVars == <<legend_i, drawn, thumbnail_bbox>>

\* Lines 106-132: the project archive is written, then the sample is looked up
CheckSample ==
    /\ pc = "check_sample"
    /\ saved' = saved \cup {[file |-> "project.zip", size |-> <<0, 0>>]}
    /\ \E geosample_id \in BOOLEAN :
         pc' = IF geosample_id THEN "parse_phases" ELSE "exited"
    /\ UNCHANGED <<error, node_i, phaseVars, layoutVars, fields, canvasVars, field_i, x, y,
                   pixelVars, outputVars, db, phase_node, negative_index>>

\* Lines 176-204: one phase node
ParsePhase ==
    /\ pc = "parse_phases"
    /\ node_i <= MaxPhaseNodes
    /\ \E node \in PhaseNodeChoices :
         /\ phase_node' = node
         /\ IF IsBackground(node)
            THEN UNCHANGED <<phase_map, largest_name_width, db>>
            ELSE /\ db' = [db EXCEPT !.mineral = @ \cup {node.name}]
                 /\ largest_name_width' =
                        Max(largest_name_width, getsize(NameLength(node.name)))
                 /\ phase_map' = DictSet(phase_map, node.id, PhaseEntry(node))
    /\ node_i' = node_i + 1
    /\ UNCHANGED <<pc, error, empty_phase_map, layoutVars, fields, canvasVars, field_i, x, y,
                   pixelVars, outputVars, saved, negative_index>>

\* Lines 206-257: the snapshot of the empty histograms, the scan geometry, the
\* mindif record and the layout of the canvas
ReadMeasurement ==
    /\ pc = "parse_phases"
    /\ empty_phase_map' = DeepCopy(phase_map)
    /\ \E m \in Measurements, mindif_exists \in BOOLEAN :
         /\ measurement' = m
         /\ diameter_px' = DiameterPx(m)
         /\ IF mindif_exists
            THEN /\ pc' = "exited"
                 /\ UNCHANGED <<db, legend_start_x, percent_right_x, canvas_size, origin>>
            ELSE /\ pc' = "fields"
                 /\ db' = [db EXCEPT !.mindif = Append(@, m)]
                 /\ legend_start_x' = LegendStartX(DiameterPx(m))
                 /\ percent_right_x' =
                        PercentRightX(DiameterPx(m), largest_name_width, getsize(5))
                 /\ canvas_size' =
                        <<PercentRightX(DiameterPx(m), largest_name_width, getsize(5)),
                          DiameterPx(m)>>
                 /\ origin' = Origin(DiameterPx(m))
    /\ UNCHANGED <<error, node_i, phase_map, largest_name_width, fields, canvasVars, field_i,
                   x, y, pixelVars, outputVars, saved, phase_node, negative_index>>

\* Lines 267-279: one field node
AddField ==
    /\ pc = "fields"
    /\ Len(fields) < MaxFields
    /\ \E c \in FieldCoords :
         LET offset == FieldOffset(measurement, origin, c[1], c[2])
         IN /\ x' = offset[1]
            /\ y' = offset[2]
            /\ db' = [db EXCEPT !.mindif_field =
                          Append(@, [mindif_field_id |-> Len(@) + 1,
                                     position_x_px |-> offset[1],
                                     position_y_px |-> offset[2]])]
            /\ fields' = Append(fields, [x |-> offset[1], y |-> offset[2],
                                         mindif_field_id |-> Len(fields) + 1])
    /\ UNCHANGED <<pc, error, node_i, phaseVars, layoutVars, canvasVars, field_i,
                   pixelVars, outputVars, saved, phase_node, negative_index>>

\* Lines 282-292: the white canvas and the unpopulated thumbnail bounds
NewCanvas ==
    /\ pc = "fields"
    /\ png_array' = <<>>
    /\ classified_pixel_count' = 0
    /\ thumbnail_x_min' = 1000000000
    /\ thumbnail_x_max' = -1
    /\ thumbnail_y_min' = 1000000000
    /\ thumbnail_y_max' = -1
    /\ field_i' = 1
    /\ pc' = "open_field"
    /\ UNCHANGED <<error, node_i, phaseVars, layoutVars, fields, x, y, pixelVars,
                   outputVars, saved, db, phase_node, negative_index>>

\* Lines 294-302: the next field's rasters are opened
OpenField ==
    /\ pc = "open_field"
    /\ field_i <= Len(fields)
    /\ field_phase_map' = DeepCopy(empty_phase_map)
    /\ x' = 0
    /\ y' = 0
    /\ pc' = "pixels"
    /\ UNCHANGED <<error, node_i, phaseVars, layoutVars, fields, canvasVars, field_i,
                   phase_index, mask_index, outputVars, saved, db, phase_node, negative_index>>

\* Lines 304-320: one pixel of the field
Pixel ==
    /\ pc = "pixels"
    /\ y < measurement.image_height_px
    /\ \E value \in PixelValues,
          wraps \in (IF negative_index = "wraps" THEN {TRUE} ELSE BOOLEAN) :
         LET phase == value[1]
             mask == value[2]
         IN
         /\ phase_index' = phase
         /\ mask_index' = mask
         /\ IF ~IsClassified(phase, mask)
            THEN /\ UNCHANGED <<error, phase_map, field_phase_map, canvasVars, negative_index>>
                 /\ pc' = pc
            ELSE LET png_x == x + fields[field_i].x
                     png_y == y + fields[field_i].y
                     at == Address(canvas_size, wraps, png_x, png_y)
                 IN IF phase \notin DictKeys(phase_map)
                    THEN /\ pc' = "aborted"
                         /\ error' = "KeyError"
                         /\ UNCHANGED <<phase_map, field_phase_map, canvasVars, negative_index>>
                    ELSE IF at = <<>>
                    THEN /\ pc' = "aborted"
                         /\ error' = "IndexError"
                         /\ UNCHANGED <<phase_map, field_phase_map, canvasVars, negative_index>>
                    ELSE /\ negative_index' =
                                IF png_x < 0 \/ png_y < 0 THEN "wraps" ELSE negative_index
                         /\ png_array' = (at :> phase_map.val[phase].colour) @@ png_array
                         /\ thumbnail_x_min' = Min(thumbnail_x_min, png_x)
                         /\ thumbnail_x_max' = Max(thumbnail_x_max, png_x)
                         /\ thumbnail_y_min' = Min(thumbnail_y_min, png_y)
                         /\ thumbnail_y_max' = Max(thumbnail_y_max, png_y)
                         /\ classified_pixel_count' = classified_pixel_count + 1
                         /\ phase_map' = Increment(phase_map, phase)
                         /\ field_phase_map' = Increment(field_phase_map, phase)
                         /\ pc' = pc
                         /\ UNCHANGED error
    /\ IF x + 1 < measurement.image_width_px
       THEN x' = x + 1 /\ y' = y
       ELSE x' = 0 /\ y' = y + 1
    /\ UNCHANGED <<node_i, largest_name_width, empty_phase_map, layoutVars, fields, field_i,
                   outputVars, saved, db, phase_node>>

\* Lines 322-342: the field's phase occurrences are inserted
EndField ==
    /\ pc = "pixels"
    /\ y >= measurement.image_height_px
    /\ LET rows == SortedList(field_phase_map).items
       IN /\ field_phase_map' = SortedList(field_phase_map)
          /\ db' = [db EXCEPT !.mineral_occurrence =
                        @ \o [j \in 1..Len(rows) |->
                                [mindif_field_id |-> fields[field_i].mindif_field_id,
                                 mineral_id |-> rows[j][2].mineral_id,
                                 mineral_pixel_count |-> rows[j][2].histogram]]]
    /\ field_i' = field_i + 1
    /\ pc' = "open_field"
    /\ UNCHANGED <<error, node_i, phaseVars, layoutVars, fields, canvasVars, x, y,
                   phase_index, mask_index, outputVars, saved, phase_node, negative_index>>

\* Lines 344-352: the phases that occur, most frequent first
SortLegend ==
    /\ pc = "open_field"
    /\ field_i > Len(fields)
    /\ phase_map' = SortedList(phase_map)
    /\ y' = 0
    /\ legend_i' = 1
    /\ pc' = "draw_legend"
    /\ UNCHANGED <<error, node_i, largest_name_width, empty_phase_map, layoutVars, fields,
                   canvasVars, field_i, x, pixelVars, drawn, thumbnail_bbox, saved, db,
                   phase_node, negative_index>>

\* Lines 353-362: one legend entry
DrawLegendEntry ==
    /\ pc = "draw_legend"
    /\ legend_i <= Len(phase_map.items)
    /\ LET id == phase_map.items[legend_i][1]
           phase_map_entry == phase_map.items[legend_i][2]
           text == get_percent_text(phase_map_entry.histogram, classified_pixel_count)
       IN /\ drawn' = Append(drawn,
                 [id |-> id,
                  swatch |-> <<legend_start_x, y, legend_start_x + legend_line_height,
                               y + legend_line_height>>,
                  fill |-> phase_map_entry.colour,
                  label_x |-> legend_start_x + legend_text_x_offset,
                  label |-> phase_map_entry.mineral_name,
                  text |-> text,
                  text_x |-> percent_right_x - getsize(text.length),
                  y |-> y])
          /\ db' = [db EXCEPT !.mineral_mass_and_colour =
                        Append(@, [mineral_id |-> phase_map_entry.mineral_id,
                                   colour |-> phase_map_entry.colour_hex,
                                   mass |-> phase_map_entry.mass])]
    /\ y' = y + legend_line_height
    /\ legend_i' = legend_i + 1
    /\ UNCHANGED <<pc, error, node_i, phaseVars, layoutVars, fields, canvasVars, field_i, x,
                   pixelVars, thumbnail_bbox, saved, phase_node, negative_index>>

\* Lines 364-368: the thumbnail.  What the imaging library does with a box of no
\* area depends on its version: it raises, or it yields an image of no pixels.
Thumbnail ==
    /\ pc = "draw_legend"
    /\ legend_i > Len(phase_map.items)
    /\ LET box == <<thumbnail_x_min, thumbnail_y_min, thumbnail_x_max, thumbnail_y_max>>
           size == CropSize(box)
       IN /\ thumbnail_bbox' = box
          /\ \/ /\ size[1] > 0 /\ size[2] > 0
                /\ saved' = saved \cup {[file |-> "classification.thumbnail.png",
                                         size |-> ThumbnailSize(size)]}
                /\ pc' = "save"
                /\ UNCHANGED error
             \/ /\ ~(size[1] > 0 /\ size[2] > 0)
                /\ saved' = saved \cup {[file |-> "classification.thumbnail.png",
                                         size |-> <<0, 0>>]}
                /\ pc' = "save"
                /\ UNCHANGED error
             \/ /\ ~(size[1] > 0 /\ size[2] > 0)
                /\ pc' = "aborted"
                /\ error' = "ImagingError"
                /\ UNCHANGED saved
    /\ UNCHANGED <<node_i, phaseVars, layoutVars, fields, canvasVars, field_i, x, y,
                   pixelVars, legend_i, drawn, db, phase_node, negative_index>>

\* Lines 370-385: the outline, the classification image and the dataset archive
SaveImage ==
    /\ pc = "save"
    /\ saved' = saved \cup {[file |-> "classification.png", size |-> canvas_size],
                            [file |-> "mindif.zip", size |-> <<0, 0>>]}
    /\ pc' = "done"
    /\ UNCHANGED <<error, node_i, phaseVars, layoutVars, fields, canvasVars, field_i, x, y,
                   pixelVars, outputVars, db, phase_node, negative_index>>

Next ==
    \/ CheckSample
    \/ ParsePhase
    \/ ReadMeasurement
    \/ AddField
    \/ NewCanvas
    \/ OpenField
    \/ Pixel
    \/ EndField
    \/ SortLegend
    \/ DrawLegendEntry
    \/ Thumbnail
    \/ SaveImage

Spec == Init /\ [][Next]_vars

----------------------------------------------------------------------------
(* Properties *)

\* The entries of a phase map, dict or sorted list
Entries(v) ==
    IF IsList(v) THEN { v.items[j][2] : j \in 1..Len(v.items) }
    ELSE { v.val[k] : k \in DictKeys(v) }

\* The scan geometry and the layout have been computed (line 257 was passed)
LayoutKnown == db.mindif # <<>>

\* The field nodes are being placed with the geometry just computed
PlacingFields == pc = "fields"

\* Every field has been composited and the legend is not yet sorted
AllComposited == pc = "open_field" /\ field_i > Len(fields)

\* The thumbnail crop of line 365 has been executed
Cropped == pc \in {"save", "done"} \/ error = "ImagingError"

\* C1: a pixel whose mask value is 0 or whose phase index is 0 writes nothing: the
\* step that visits it leaves the canvas, both histograms, the classified-pixel
\* total and the thumbnail bounds as they were.
C1_UnclassifiedPixelWritesNothing ==
    [][ ( /\ pc = "pixels"
          /\ <<x', y'>> # <<x, y>>
          /\ (mask_index' = 0 \/ phase_index' = 0) )
        => /\ png_array' = png_array
           /\ PixelAt(png_array', <<x + fields[field_i].x, y + fields[field_i].y>>)
                = PixelAt(png_array, <<x + fields[field_i].x, y + fields[field_i].y>>)
           /\ phase_map' = phase_map
           /\ field_phase_map' = field_phase_map
           /\ classified_pixel_count' = classified_pixel_count
           /\ <<thumbnail_x_min', thumbnail_x_max', thumbnail_y_min', thumbnail_y_max'>>
                = <<thumbnail_x_min, thumbnail_x_max, thumbnail_y_min, thumbnail_y_max>>
      ]_vars

\* A pixel with a phase index but a zero mask was visited in the second field,
\* after the canvas had been written to
C1_Witness ==
    /\ pc = "pixels"
    /\ field_i = 2
    /\ x = 1
    /\ mask_index = 0
    /\ phase_index # 0
    /\ png_array # <<>>
    /\ phase_index \in DictKeys(phase_map)

BackgroundNames == { n.name : n \in { c \in PhaseNodeChoices : c.background = "yes" } }

\* C2: a node flagged as background never becomes an entry of the phase catalog,
\* so it has no global or per-field histogram, no legend entry and no per-field
\* or per-phase record.
C2_BackgroundNeverInCatalog ==
    /\ \A e \in Entries(phase_map) \cup Entries(empty_phase_map) \cup Entries(field_phase_map) :
         e.mineral_name \notin BackgroundNames
    /\ \A j \in 1..Len(drawn) : drawn[j].label \notin BackgroundNames
    /\ \A j \in 1..Len(db.mineral_occurrence) :
         db.mineral_occurrence[j].mineral_id \notin BackgroundNames
    /\ \A j \in 1..Len(db.mineral_mass_and_colour) :
         db.mineral_mass_and_colour[j].mineral_id \notin BackgroundNames

\* A background node was the last node read, and the run drew a legend with it
C2_Witness ==
    /\ pc = "done"
    /\ phase_node.background = "yes"
    /\ Len(drawn) > 0
    /\ db.mineral_occurrence # <<>>

\* C3: the legend lists exactly the phases with a nonzero count, in non-increasing
\* order of count, and phases with equal counts in ascending order of id.
C3_LegendOrderedWithIdTieBreak ==
    IsList(phase_map) =>
      \A j, k \in 1..Len(phase_map.items) :
        j < k =>
          \/ phase_map.items[j][2].histogram > phase_map.items[k][2].histogram
          \/ /\ phase_map.items[j][2].histogram = phase_map.items[k][2].histogram
             /\ phase_map.items[j][1] < phase_map.items[k][1]

\* C4: a run that ends on a classified pixel whose phase is not in the catalog
\* leaves no scan record, no field record, no occurrence record and no image.
C4_UnknownPhaseLeavesNothing ==
    error = "KeyError" =>
      /\ db.mindif = <<>>
      /\ db.mindif_field = <<>>
      /\ db.mineral_occurrence = <<>>
      /\ \A f \in saved : f.file \notin {"classification.png", "classification.thumbnail.png"}

\* C5: with no classified pixel the run fails before the thumbnail: the canvas is
\* never cropped with the unpopulated bounds and no thumbnail or image is written.
C5_EmptyClassificationNeverCropped ==
    classified_pixel_count = 0 =>
      /\ ~Cropped
      /\ \A f \in saved : f.file \notin {"classification.png", "classification.thumbnail.png"}

\* C6: reading a node that is not background and whose id is already a key of the
\* catalog fails the run, and the entry stored for that id is not replaced.
C6_DuplicateIdRejected ==
    [][ ( /\ pc = "parse_phases"
          /\ node_i' = node_i + 1
          /\ phase_node'.background # "yes"
          /\ phase_node'.id \in DictKeys(phase_map) )
        => /\ pc' = "aborted"
           /\ phase_map' = phase_map
      ]_vars

\* The canvas pixels a field addresses
Footprint(f) ==
    { Address(canvas_size, TRUE, px + f.x, py + f.y) :
        px \in 0..(measurement.image_width_px - 1),
        py \in 0..(measurement.image_height_px - 1) } \ {<<>>}

NoOverlap ==
    \A i, j \in 1..Len(fields) :
      i # j => Footprint(fields[i]) \cap Footprint(fields[j]) = {}

DistinctColours ==
    \A k1, k2 \in DictKeys(phase_map) :
      /\ phase_map.val[k1].colour # white
      /\ k1 # k2 => phase_map.val[k1].colour # phase_map.val[k2].colour

PixelsOfColour(c) == Cardinality({ p \in DOMAIN png_array : png_array[p] = c })

\* C7: when the fields do not overlap and the phases have distinct colours other
\* than white, then once every field is composited each phase's colour is on
\* exactly as many canvas pixels as its global histogram counts; and a legend of
\* two phases with equal counts shows 50.00 for both.
C7_ColourCountEqualsHistogram ==
    /\ (AllComposited /\ NoOverlap /\ DistinctColours) =>
         \A k \in DictKeys(phase_map) :
           PixelsOfColour(phase_map.val[k].colour) = phase_map.val[k].histogram
    /\ ( /\ pc = "done"
         /\ Len(drawn) = 2
         /\ phase_map.items[1][2].histogram = phase_map.items[2][2].histogram )
       => \A j \in 1..2 : drawn[j].text = [less |-> FALSE, hundredths |-> 5000, length |-> 5]

\* Two fields that do not overlap, two phases, every pixel of one field of one phase
C7_Witness ==
    /\ AllComposited
    /\ NoOverlap
    /\ DistinctColours
    /\ Len(fields) = 2
    /\ measurement.image_width_px * measurement.image_height_px = 2
    /\ Cardinality(DictKeys(phase_map)) = 2
    /\ \A k \in DictKeys(phase_map) : phase_map.val[k].histogram = 2
    /\ field_phase_map.items # <<>>
    /\ field_phase_map.items[1][2].histogram = 2

InclusiveBox ==
    (thumbnail_x_min..thumbnail_x_max) \X (thumbnail_y_min..thumbnail_y_max)

\* C8: with at least one classified pixel, the region the thumbnail is cropped from
\* is the inclusive bounding box of the classified pixels, column max-x and row
\* max-y included.
C8_CropIsInclusiveBox ==
    (Cropped /\ classified_pixel_count > 0) =>
      CropRegion(thumbnail_bbox) = InclusiveBox

\* x of the transform at -dx against x at dx plus twice the rounded pixel distance
XMirrored(dx, dy) ==
    FieldOffset(measurement, origin, -dx, dy)[1]
      = FieldOffset(measurement, origin, dx, dy)[1]
          + 2 * Round(dx * measurement.image_width_px, measurement.view_field_um)

YKept(dx, dy) ==
    FieldOffset(measurement, origin, -dx, dy)[2] = FieldOffset(measurement, origin, dx, dy)[2]

\* dx / pixel_spacing is an odd multiple of one half
HalfPixel(dx) ==
    /\ (2 * dx * measurement.image_width_px) % measurement.view_field_um = 0
    /\ (dx * measurement.image_width_px) % measurement.view_field_um # 0

C10_CanvasWidthFromLegendStart ==
    LayoutKnown =>
      /\ canvas_size[1] = percent_right_x
      /\ percent_right_x =
           legend_start_x + legend_text_x_offset + largest_name_width + getsize(5)
             + legend_line_height - font_size
      /\ legend_start_x + legend_text_x_offset + largest_name_width
           <= percent_right_x - getsize(5)

====
